---- MODULE Spec2Model ----
(***************************************************************************)
(* Model of tauri-ui/src-tauri/src/main.rs: the setup routine that shows   *)
(* the splash window, resolves the Python interpreter, checks and repairs  *)
(* the dependencies, spawns the backend worker and starts the two output   *)
(* relay threads and the readiness gate thread.                            *)
(*                                                                         *)
(* Every fallible call of the source (a Result that is unwrapped, expected *)
(* or ignored) is an input of the action that makes it, drawn with \E.     *)
(* The atomic flag `loaded` is accessed with Ordering::Relaxed; a load     *)
(* returns the latest stored value (one variable, one writer).             *)
(***************************************************************************)
EXTENDS Naturals, Integers, Sequences, FiniteSets

\* Bound of the model: lines the worker writes to its two pipes in one run.
MaxLines == 2

\* wait_for_api_ready: let max_retries = 20; let delay = 500 ms.
max_retries == 20
delay_ms == 500

\* MUST_HAVE_MODULES, in list order.
MUST_HAVE_MODULES == <<"fastapi", "uvicorn", "pydantic">>

\* The worker's two piped streams, each owned by one relay thread.
Streams == {"stdout", "stderr"}

VARIABLES
    pc,             \* position of the setup routine (main thread)
    abortedAt,      \* the step whose unwrap/expect panicked, "" while none did
    splashVisible,  \* the splash window is on screen
    mainVisible,    \* the main window is on screen
    splashCloses,   \* successful splashscreen_window.close() calls
    mainShows,      \* successful main_window.show() calls
    loaded,         \* the AtomicBool shared by the gate and the relays
    found,          \* the candidate interpreter paths that exist (1: .venv, 2: venv)
    python,         \* the resolved interpreter path, "" before resolution
    checked,        \* the import checks run so far: module and result, in run order
    deps,           \* result of deps_missing: "unknown", "missing", "satisfied"
    install,        \* outcome of install_requirements, "not_called" if never called
    processes,      \* kinds of child processes started so far, in start order
    child,          \* the worker's Child handle: "none" or "running"
    workerSpawns,   \* worker processes spawned in this run
    written,        \* per stream: the lines the worker wrote (flag value at the write)
    closed,         \* per stream: the worker closed its end
    nread,          \* per stream: lines the relay's reader has taken from the pipe
    skipped,        \* per stream: lines that could not be read and were skipped
    rpc,            \* per stream: position of the relay thread
    relayed,        \* per stream: the lines forwarded so far, with their sink
    gpc,            \* position of the gate thread
    health,         \* outcome of each health request made so far
    sleeps,         \* 500 ms delays slept so far by the gate thread
    ready,          \* result of wait_for_api_ready: "pending", "ready", "timeout"
    cwpc,           \* position of a call of center_window, "idle" outside a call
    cwcalls,        \* center_window: the toolkit calls made so far, in order
    cwmon,          \* center_window: the answer of monitor_from_point
    cwsize,         \* center_window: the answer of outer_size
    cwpos           \* the position center_window gave the window

vars == <<pc, abortedAt, splashVisible, mainVisible, splashCloses, mainShows, loaded,
          found, python, checked, deps, install, processes, child, workerSpawns,
          written, closed, nread, skipped, rpc, relayed, gpc, health, sleeps, ready,
          cwpc, cwcalls, cwmon, cwsize, cwpos>>

setupVars == <<pc, abortedAt, found, python, checked, deps, install, processes>>
uiVars == <<splashVisible, mainVisible, splashCloses, mainShows>>
workerVars == <<child, workerSpawns, written, closed>>
relayVars == <<nread, skipped, rpc, relayed>>
gateVars == <<gpc, health, sleeps, ready>>
centerVars == <<cwpc, cwcalls, cwmon, cwsize, cwpos>>

\* Answers of the toolkit before a query is made, and a window not yet placed.
NoMonitor == [status |-> "unqueried", x |-> 0, y |-> 0, width |-> 0, height |-> 0]
NoSize == [status |-> "unqueried", width |-> 0, height |-> 0]
Unmoved == [kind |-> "unmoved", x |-> 0, y |-> 0]

\* The state at the start of the setup routine, outside any call of center_window.
ProgramInit ==
    /\ pc = "show_splash"
    /\ abortedAt = ""
    /\ splashVisible = FALSE
    /\ mainVisible = FALSE
    /\ splashCloses = 0
    /\ mainShows = 0
    /\ loaded = FALSE
    /\ found = {}
    /\ python = ""
    /\ checked = <<>>
    /\ deps = "unknown"
    /\ install = "not_called"
    /\ processes = <<>>
    /\ child = "none"
    /\ workerSpawns = 0
    /\ written = [s \in Streams |-> <<>>]
    /\ closed = [s \in Streams |-> FALSE]
    /\ nread = [s \in Streams |-> 0]
    /\ skipped = [s \in Streams |-> 0]
    /\ rpc = [s \in Streams |-> "unstarted"]
    /\ relayed = [s \in Streams |-> <<>>]
    /\ gpc = "unstarted"
    /\ health = <<>>
    /\ sleeps = 0
    /\ ready = "pending"

Init ==
    /\ ProgramInit
    /\ cwpc = "idle"
    /\ cwcalls = <<>>
    /\ cwmon = NoMonitor
    /\ cwsize = NoSize
    /\ cwpos = Unmoved

(***************************************************************************)
(* Pure parts of the source.                                               *)
(***************************************************************************)

\* Variant of resolve_python_path: the candidates are tried in the other order.
resolve_python_path_venv_first(existing) ==
    IF 2 \in existing THEN "venv/bin/python"
    ELSE IF 1 \in existing THEN ".venv/bin/python"
    ELSE "python"

\* resolve_python_path: the first existing candidate (1: .venv, 2: venv),
\* else the bare command name.
resolve_python_path(existing) ==
    IF 1 \in existing THEN ".venv/bin/python"
    ELSE IF 2 \in existing THEN "venv/bin/python"
    ELSE "python"

\* Command::status() of a short-lived child: it exited 0, exited non-zero,
\* or could not be started.
StatusResults == {"exit0", "nonzero", "io_error"}

\* Variant of import_ok: a check that could not be run counts as a success
\* (unwrap_or(true)).
import_ok_lenient(r) == r # "nonzero"

\* deps_missing: .status().map(|s| s.success()).unwrap_or(false)
import_ok(r) == r = "exit0"

\* deps_missing: for m in MUST_HAVE_MODULES, the module the next iteration checks.
next_module(done) == MUST_HAVE_MODULES[Len(done) + 1]

\* A child process exists only if it could be started.
Started(log, kind, r) == IF r = "io_error" THEN log ELSE Append(log, kind)

\* install_requirements: what it did, from the manifest's presence and pip's status.
install_outcome(manifest, r) ==
    IF ~manifest THEN "no_manifest"
    ELSE IF r = "io_error" THEN "io_error"
    ELSE IF r = "nonzero" THEN "pip_failed"
    ELSE "installed"

(***************************************************************************)
(* The setup routine (the closure given to Builder::setup), step by step.  *)
(***************************************************************************)

\* A panic of the setup routine: unwrap/expect on a failure.
Abort(step) ==
    /\ pc' = "aborted"
    /\ abortedAt' = step

\* get_webview_window("splashscreen"), splashscreen_window.show(). The calls of
\* center_window (lines 128 and 132) only place the windows and never end the
\* routine: center_window is modelled on its own, under CenterSpec.
ShowSplash ==
    /\ pc = "show_splash"
    /\ \E ok \in BOOLEAN :
          IF ok
          THEN /\ splashVisible' = TRUE
               /\ pc' = "current_dir"
               /\ UNCHANGED abortedAt
          ELSE /\ Abort("show_splash")
               /\ UNCHANGED splashVisible
    /\ UNCHANGED <<centerVars, mainVisible, splashCloses, mainShows, loaded, found, python, checked, deps,
                   install, processes, workerVars, relayVars, gateVars>>

\* env::current_dir().expect(..), cwd.parent().expect(..)
CurrentDir ==
    /\ pc = "current_dir"
    /\ \E ok \in BOOLEAN :
          IF ok
          THEN pc' = "resolve_python" /\ UNCHANGED abortedAt
          ELSE Abort("current_dir")
    /\ UNCHANGED <<centerVars, uiVars, loaded, found, python, checked, deps, install, processes,
                   workerVars, relayVars, gateVars>>

\* let python = resolve_python_path(project_root)
ResolvePython ==
    /\ pc = "resolve_python"
    /\ \E existing \in SUBSET {1, 2} :
          /\ found' = existing
          /\ python' = resolve_python_path(existing)
    /\ pc' = "deps_missing"
    /\ UNCHANGED <<centerVars, abortedAt, uiVars, loaded, checked, deps, install, processes,
                   workerVars, relayVars, gateVars>>

\* Variant of DepsCheck: the install is run whatever the check reports.
DepsCheckAlwaysInstalls ==
    /\ pc = "deps_missing"
    /\ Len(checked) < Len(MUST_HAVE_MODULES)
    /\ \E r \in StatusResults :
          /\ checked' = Append(checked, [module |-> next_module(checked), result |-> r])
          /\ processes' = Started(processes, "import", r)
          /\ IF ~import_ok(r)
             THEN deps' = "missing" /\ pc' = "install"
             ELSE IF Len(checked') = Len(MUST_HAVE_MODULES)
             THEN deps' = "satisfied" /\ pc' = "install"
             ELSE UNCHANGED <<deps, pc>>
    /\ UNCHANGED <<centerVars, abortedAt, uiVars, loaded, found, python, install,
                   workerVars, relayVars, gateVars>>

\* One iteration of the loop of deps_missing: the import check of the next module
\* of the list; the function returns true at the first failure and false after
\* the last module.
DepsCheck ==
    /\ pc = "deps_missing"
    /\ Len(checked) < Len(MUST_HAVE_MODULES)
    /\ \E r \in StatusResults :
          /\ checked' = Append(checked, [module |-> next_module(checked), result |-> r])
          /\ processes' = Started(processes, "import", r)
          /\ IF ~import_ok(r)
             THEN deps' = "missing" /\ pc' = "install"
             ELSE IF Len(checked') = Len(MUST_HAVE_MODULES)
             THEN deps' = "satisfied" /\ pc' = "canonicalize"
             ELSE UNCHANGED <<deps, pc>>
    /\ UNCHANGED <<centerVars, abortedAt, uiVars, loaded, found, python, install,
                   workerVars, relayVars, gateVars>>

\* Variant of InstallRequirements: the Err of install_requirements is fatal
\* (expect) instead of logged.
InstallRequirementsFatal ==
    /\ pc = "install"
    /\ \E manifest \in BOOLEAN, r \in StatusResults :
          /\ install' = install_outcome(manifest, r)
          /\ processes' = IF manifest THEN Started(processes, "pip", r) ELSE processes
          /\ IF install_outcome(manifest, r) = "io_error"
             THEN Abort("install")
             ELSE pc' = "canonicalize" /\ UNCHANGED abortedAt
    /\ UNCHANGED <<centerVars, uiVars, loaded, found, python, checked, deps,
                   workerVars, relayVars, gateVars>>

\* if let Err(e) = install_requirements(..) { eprintln!(..) }: every outcome,
\* Err included, falls through to the next statement.
InstallRequirements ==
    /\ pc = "install"
    /\ \E manifest \in BOOLEAN, r \in StatusResults :
          /\ install' = install_outcome(manifest, r)
          /\ processes' = IF manifest THEN Started(processes, "pip", r) ELSE processes
    /\ pc' = "canonicalize"
    /\ UNCHANGED <<centerVars, abortedAt, uiVars, loaded, found, python, checked, deps,
                   workerVars, relayVars, gateVars>>

\* Variant of Canonicalize: the gate thread is started as soon as the script
\* path is known, before the worker is spawned.
CanonicalizeStartsGate ==
    /\ pc = "canonicalize"
    /\ \E ok \in BOOLEAN :
          IF ok
          THEN pc' = "spawn" /\ gpc' = "request" /\ UNCHANGED abortedAt
          ELSE Abort("canonicalize") /\ UNCHANGED gpc
    /\ UNCHANGED <<centerVars, uiVars, loaded, found, python, checked, deps, install, processes,
                   workerVars, relayVars, health, sleeps, ready>>

\* Variant of Canonicalize: the failure is recorded but the routine goes on
\* with the unresolved path.
CanonicalizeNotFatal ==
    /\ pc = "canonicalize"
    /\ \E ok \in BOOLEAN :
          /\ pc' = "spawn"
          /\ abortedAt' = IF ok THEN abortedAt ELSE "canonicalize"
    /\ UNCHANGED <<centerVars, uiVars, loaded, found, python, checked, deps, install, processes,
                   workerVars, relayVars, gateVars>>

\* project_root.join("../api_server.py").canonicalize().expect(..)
Canonicalize ==
    /\ pc = "canonicalize"
    /\ \E ok \in BOOLEAN :
          IF ok
          THEN pc' = "spawn" /\ UNCHANGED abortedAt
          ELSE Abort("canonicalize")
    /\ UNCHANGED <<centerVars, uiVars, loaded, found, python, checked, deps, install, processes,
                   workerVars, relayVars, gateVars>>

\* Variant of SpawnWorker: the failure is recorded but the routine goes on to
\* start the threads.
SpawnWorkerNotFatal ==
    /\ pc = "spawn"
    /\ \E ok \in BOOLEAN :
          /\ pc' = "spawn_stdout_relay"
          /\ IF ok
             THEN /\ processes' = Append(processes, "worker")
                  /\ child' = "running"
                  /\ workerSpawns' = workerSpawns + 1
                  /\ UNCHANGED abortedAt
             ELSE /\ abortedAt' = "spawn"
                  /\ UNCHANGED <<processes, child, workerSpawns>>
    /\ UNCHANGED <<centerVars, uiVars, loaded, found, python, checked, deps, install,
                   written, closed, relayVars, gateVars>>

\* Command::new(python)...spawn().expect(..); child.stdout.take(), child.stderr.take()
SpawnWorker ==
    /\ pc = "spawn"
    /\ \E ok \in BOOLEAN :
          IF ok
          THEN /\ processes' = Append(processes, "worker")
               /\ child' = "running"
               /\ workerSpawns' = workerSpawns + 1
               /\ pc' = "spawn_stdout_relay"
               /\ UNCHANGED abortedAt
          ELSE /\ Abort("spawn")
               /\ UNCHANGED <<processes, child, workerSpawns>>
    /\ UNCHANGED <<centerVars, uiVars, loaded, found, python, checked, deps, install,
                   written, closed, relayVars, gateVars>>

\* thread::spawn of the relay of standard output
SpawnStdoutRelay ==
    /\ pc = "spawn_stdout_relay"
    /\ rpc' = [rpc EXCEPT !["stdout"] = "next"]
    /\ pc' = "spawn_stderr_relay"
    /\ UNCHANGED <<centerVars, abortedAt, uiVars, loaded, found, python, checked, deps, install, processes,
                   workerVars, nread, skipped, relayed, gateVars>>

\* thread::spawn of the relay of standard error
SpawnStderrRelay ==
    /\ pc = "spawn_stderr_relay"
    /\ rpc' = [rpc EXCEPT !["stderr"] = "next"]
    /\ pc' = "spawn_gate"
    /\ UNCHANGED <<centerVars, abortedAt, uiVars, loaded, found, python, checked, deps, install, processes,
                   workerVars, nread, skipped, relayed, gateVars>>

\* thread::spawn of the gate; the routine then returns Ok(()) and its locals
\* (the interpreter path, the results of the dependency steps) go out of scope:
\* the record of the setup steps ends with the routine.
SpawnGate ==
    /\ pc = "spawn_gate"
    /\ gpc' = "request"
    /\ pc' = "running"
    /\ found' = {}
    /\ python' = ""
    /\ checked' = <<>>
    /\ deps' = "unknown"
    /\ install' = "not_called"
    /\ processes' = <<>>
    /\ UNCHANGED <<centerVars, abortedAt, uiVars, loaded, workerVars, relayVars, health, sleeps, ready>>

(***************************************************************************)
(* The worker process, seen through its two pipes.                         *)
(***************************************************************************)

TotalWritten == Len(written["stdout"]) + Len(written["stderr"])

\* The worker writes one line to a stream; the line is stamped with the value
\* the flag has at that moment.
WorkerWrite(s) ==
    /\ child = "running"
    /\ ~closed[s]
    /\ TotalWritten < MaxLines
    /\ written' = [written EXCEPT ![s] = Append(@, loaded)]
    /\ UNCHANGED <<centerVars, setupVars, uiVars, loaded, child, workerSpawns, closed, relayVars, gateVars>>

\* The worker closes a stream (or exits).
WorkerClose(s) ==
    /\ child = "running"
    /\ ~closed[s]
    /\ closed' = [closed EXCEPT ![s] = TRUE]
    /\ UNCHANGED <<centerVars, setupVars, uiVars, loaded, child, workerSpawns, written, relayVars, gateVars>>

(***************************************************************************)
(* The two output relay threads.                                           *)
(***************************************************************************)

\* Variant of relay_branch: the test of the flag is inverted.
relay_branch_inverted(flag) == IF flag THEN "emit" ELSE "print"

\* if !loaded.load(Relaxed) { emit } else { print }
relay_branch(flag) == IF ~flag THEN "emit" ELSE "print"

\* Variant of console_of: both relays print with eprintln!.
console_of_always_err(s) == "stderr_console"

\* println! in the relay of standard output, eprintln! in that of standard error
console_of(s) == IF s = "stdout" THEN "stdout_console" ELSE "stderr_console"

\* for line in reader.lines().flatten(): the next item of the iterator. A line
\* that cannot be read (Err) is skipped by flatten(); the end of the stream ends
\* the thread.
RelayNext(s) ==
    /\ rpc[s] = "next"
    /\ IF nread[s] < Len(written[s])
       THEN /\ nread' = [nread EXCEPT ![s] = @ + 1]
            /\ \E ok \in BOOLEAN :
                  /\ rpc' = [rpc EXCEPT ![s] = IF ok THEN "load" ELSE "next"]
                  /\ skipped' = [skipped EXCEPT ![s] = IF ok THEN @ ELSE @ + 1]
       ELSE /\ closed[s]
            /\ rpc' = [rpc EXCEPT ![s] = "done"]
            /\ UNCHANGED <<nread, skipped>>
    /\ UNCHANGED <<centerVars, setupVars, uiVars, loaded, workerVars, relayed, gateVars>>

\* Variant of RelayLoad: the load may return either value of the flag, whatever
\* was stored.
RelayLoadAny(s) ==
    /\ rpc[s] = "load"
    /\ \E v \in BOOLEAN : rpc' = [rpc EXCEPT ![s] = relay_branch(v)]
    /\ UNCHANGED <<centerVars, setupVars, uiVars, loaded, workerVars, nread, skipped, relayed, gateVars>>

\* Variant of RelayLoad: the relay consumes the flag (swap(false)) instead of
\* loading it.
RelayLoadSwap(s) ==
    /\ rpc[s] = "load"
    /\ rpc' = [rpc EXCEPT ![s] = relay_branch(loaded)]
    /\ loaded' = FALSE
    /\ UNCHANGED <<centerVars, setupVars, uiVars, workerVars, nread, skipped, relayed, gateVars>>

\* loaded_thread_n.load(Ordering::Relaxed)
RelayLoad(s) ==
    /\ rpc[s] = "load"
    /\ rpc' = [rpc EXCEPT ![s] = relay_branch(loaded)]
    /\ UNCHANGED <<centerVars, setupVars, uiVars, loaded, workerVars, nread, skipped, relayed, gateVars>>

\* splash_thread_n.emit("backend-log", line).ok()
RelayEmit(s) ==
    /\ rpc[s] = "emit"
    /\ relayed' = [relayed EXCEPT ![s] =
                      Append(@, [line |-> nread[s], sink |-> "backend-log"])]
    /\ rpc' = [rpc EXCEPT ![s] = "next"]
    /\ UNCHANGED <<centerVars, setupVars, uiVars, loaded, workerVars, nread, skipped, gateVars>>

\* Variant of RelayPrint: the relay hides the splash itself when it prints a
\* line to the console.
RelayPrintHidesSplash(s) ==
    /\ rpc[s] = "print"
    /\ relayed' = [relayed EXCEPT ![s] =
                      Append(@, [line |-> nread[s], sink |-> console_of(s)])]
    /\ rpc' = [rpc EXCEPT ![s] = "next"]
    /\ splashVisible' = FALSE
    /\ UNCHANGED <<centerVars, setupVars, mainVisible, splashCloses, mainShows, loaded, workerVars,
                   nread, skipped, gateVars>>

\* println!("{}", line) / eprintln!("{}", line)
RelayPrint(s) ==
    /\ rpc[s] = "print"
    /\ relayed' = [relayed EXCEPT ![s] =
                      Append(@, [line |-> nread[s], sink |-> console_of(s)])]
    /\ rpc' = [rpc EXCEPT ![s] = "next"]
    /\ UNCHANGED <<centerVars, setupVars, uiVars, loaded, workerVars, nread, skipped, gateVars>>

(***************************************************************************)
(* The readiness gate thread.                                              *)
(***************************************************************************)

\* Variant of GateRequest: the delay is slept before the result of the request
\* is tested, so a success is followed by one more delay.
GateRequestSleepsFirst ==
    /\ gpc = "request"
    /\ \E ok \in BOOLEAN :
          /\ health' = Append(health, ok)
          /\ IF ok
             THEN ready' = "ready" /\ gpc' = "store" /\ sleeps' = sleeps + 1
             ELSE gpc' = "sleep" /\ UNCHANGED <<ready, sleeps>>
    /\ UNCHANGED <<centerVars, setupVars, uiVars, loaded, workerVars, relayVars>>

\* wait_for_api_ready: one iteration's request. A success returns true at once.
GateRequest ==
    /\ gpc = "request"
    /\ \E ok \in BOOLEAN :
          /\ health' = Append(health, ok)
          /\ IF ok
             THEN ready' = "ready" /\ gpc' = "store"
             ELSE gpc' = "sleep" /\ UNCHANGED ready
    /\ UNCHANGED <<centerVars, setupVars, uiVars, loaded, workerVars, relayVars, sleeps>>

\* Variant of GateSleep: a restart policy, the worker is spawned again when the
\* health check times out.
GateSleepRestarts ==
    /\ gpc = "sleep"
    /\ sleeps' = sleeps + 1
    /\ IF Len(health) < max_retries
       THEN gpc' = "request" /\ UNCHANGED <<ready, workerSpawns>>
       ELSE ready' = "timeout" /\ gpc' = "store" /\ workerSpawns' = workerSpawns + 1
    /\ UNCHANGED <<centerVars, setupVars, uiVars, loaded, child, written, closed, relayVars, health>>

\* wait_for_api_ready: thread::sleep(delay) after a failed request; the loop ends
\* after max_retries iterations and the function returns false.
GateSleep ==
    /\ gpc = "sleep"
    /\ sleeps' = sleeps + 1
    /\ IF Len(health) < max_retries
       THEN gpc' = "request" /\ UNCHANGED ready
       ELSE ready' = "timeout" /\ gpc' = "store"
    /\ UNCHANGED <<centerVars, setupVars, uiVars, loaded, workerVars, relayVars, health>>

\* Variant of GateStore: the store of the flag is missing.
GateStoreSkipped ==
    /\ gpc = "store"
    /\ gpc' = "close"
    /\ UNCHANGED <<centerVars, setupVars, uiVars, loaded, workerVars, relayVars, health, sleeps, ready>>

\* loaded_flag.store(true, Ordering::Relaxed), after the println!/eprintln! of the result
GateStore ==
    /\ gpc = "store"
    /\ loaded' = TRUE
    /\ gpc' = "close"
    /\ UNCHANGED <<centerVars, setupVars, uiVars, workerVars, relayVars, health, sleeps, ready>>

\* splashscreen_window.close().unwrap()
GateClose ==
    /\ gpc = "close"
    /\ \E ok \in BOOLEAN :
          IF ok
          THEN /\ splashVisible' = FALSE
               /\ splashCloses' = splashCloses + 1
               /\ gpc' = "show"
          ELSE /\ gpc' = "panicked"
               /\ UNCHANGED <<splashVisible, splashCloses>>
    /\ UNCHANGED <<centerVars, setupVars, mainVisible, mainShows, loaded, workerVars, relayVars,
                   health, sleeps, ready>>

\* main_window.show().unwrap()
GateShow ==
    /\ gpc = "show"
    /\ \E ok \in BOOLEAN :
          IF ok
          THEN /\ mainVisible' = TRUE
               /\ mainShows' = mainShows + 1
               /\ gpc' = "done"
          ELSE /\ gpc' = "panicked"
               /\ UNCHANGED <<mainVisible, mainShows>>
    /\ UNCHANGED <<centerVars, setupVars, splashVisible, splashCloses, loaded, workerVars, relayVars,
                   health, sleeps, ready>>

(***************************************************************************)
(* The program.                                                            *)
(***************************************************************************)

Setup ==
    \/ ShowSplash
    \/ CurrentDir
    \/ ResolvePython
    \/ DepsCheck
    \/ InstallRequirements
    \/ Canonicalize
    \/ SpawnWorker
    \/ SpawnStdoutRelay
    \/ SpawnStderrRelay
    \/ SpawnGate

Worker == \E s \in Streams : WorkerWrite(s) \/ WorkerClose(s)

Relay == \E s \in Streams : RelayNext(s) \/ RelayLoad(s) \/ RelayEmit(s) \/ RelayPrint(s)

Gate == GateRequest \/ GateSleep \/ GateStore \/ GateClose \/ GateShow

Next == Setup \/ Worker \/ Relay \/ Gate

Spec == Init /\ [][Next]_vars

\* Time the gate thread has slept in wait_for_api_ready, in milliseconds.
Elapsed == sleeps * delay_ms

\* The gate thread has ended: it returned, or panicked on an unwrap.
GateEnded == gpc \in {"done", "panicked"}

(***************************************************************************)
(* C1. The readiness flag starts false, changes value at most once (false  *)
(* to true) and is never false again once true, under every interleaving   *)
(* of the gate thread and the relay threads.                               *)
(***************************************************************************)
C1_FlagWriteOnce == (~loaded) /\ [][loaded => loaded']_vars

\* The flag has been set while a relay thread is about to load it.
C1_Witness == loaded /\ rpc["stderr"] = "load" /\ gpc = "close"

(***************************************************************************)
(* C2. In every run in which the worker was spawned, the splash-hide and   *)
(* the main-show each occur exactly once, both only after the flag was set *)
(* to true, and the main window is never shown while the flag is false,    *)
(* whether the health check resolved as success or as timeout.             *)
(* Stated on finite runs: neither action occurs twice or before the flag   *)
(* is set, and once the gate thread has ended both have occurred.          *)
(***************************************************************************)
C2_HideAndShowExactlyOnce ==
    /\ splashCloses <= 1
    /\ mainShows <= 1
    /\ (splashCloses > 0 \/ mainShows > 0 \/ mainVisible) => loaded
    /\ GateEnded => (splashCloses = 1 /\ mainShows = 1)

(***************************************************************************)
(* C3. Once the worker has been spawned, the main window is eventually     *)
(* shown, for every sequence of health-check outcomes and every outcome of *)
(* the dependency check, the install and the splash teardown.              *)
(* Stated on finite runs: when the gate thread has ended, the main window  *)
(* is on screen.                                                           *)
(***************************************************************************)
C3_MainWindowShown == GateEnded => mainVisible

(***************************************************************************)
(* C4. If every health request fails, wait_for_api_ready makes exactly 20  *)
(* requests, each followed by one 500 ms delay (10 s in total), resolves   *)
(* as timeout, and the gate thread still sets the flag, hides the splash   *)
(* and shows the main window.                                              *)
(***************************************************************************)
C4_TimeoutStillShowsMain ==
    /\ ready = "timeout" =>
          /\ Len(health) = max_retries
          /\ \A i \in 1..Len(health) : ~health[i]
          /\ sleeps = max_retries
          /\ Elapsed = 10000
    /\ (\A i \in 1..Len(health) : ~health[i]) => Len(health) <= max_retries
    /\ (ready = "timeout" /\ GateEnded) => (loaded /\ ~splashVisible /\ mainVisible)

\* The polling half of C4 alone, which the code satisfies.
C4_PollingExhausted ==
    /\ ready = "timeout" =>
          /\ Len(health) = max_retries
          /\ \A i \in 1..Len(health) : ~health[i]
          /\ sleeps = max_retries
          /\ Elapsed = 10000
    /\ (ready = "pending" /\ gpc # "unstarted") =>
          /\ Len(health) <= max_retries
          /\ \A i \in 1..Len(health) : ~health[i]
          /\ sleeps = (IF gpc = "sleep" THEN Len(health) - 1 ELSE Len(health))
    /\ (ready = "timeout" /\ gpc \in {"close", "show", "done", "panicked"}) => loaded

(***************************************************************************)
(* C5. For every k in 1..20, if the health endpoint fails on attempts      *)
(* 1..k-1 and succeeds on attempt k, wait_for_api_ready returns true after *)
(* exactly k requests and k-1 delays of 500 ms (2 s for k = 5), and makes  *)
(* no request and no delay after the first success.                        *)
(***************************************************************************)
C5_ReadyAtFirstSuccess ==
    /\ Len(health) <= max_retries
    /\ \A i \in 1..Len(health) : health[i] => i = Len(health)
    /\ (ready = "ready") <=> (health # <<>> /\ health[Len(health)])
    /\ ready = "ready" =>
          /\ sleeps = Len(health) - 1
          /\ Elapsed = (Len(health) - 1) * 500
          /\ gpc \notin {"request", "sleep"}

\* The spec's example: success on the 5th attempt, 4 delays, 2 s, gate finished.
C5_Witness ==
    /\ ready = "ready"
    /\ Len(health) = 5
    /\ sleeps = 4
    /\ Elapsed = 2000
    /\ gpc = "done"

\* The kinds of child process among those started so far.
Kinds(log) == {log[i] : i \in 1..Len(log)}

\* No relay thread and no gate thread has been started.
NoThreadStarted == gpc = "unstarted" /\ \A s \in Streams : rpc[s] = "unstarted"

(***************************************************************************)
(* C6 as written. If the worker script path cannot be canonicalized, the   *)
(* run aborts before any process is spawned (worker, import check or       *)
(* install) and before any window is shown.                                *)
(***************************************************************************)
C6_AbortBeforeAnyProcessOrWindow ==
    abortedAt = "canonicalize" =>
        /\ processes = <<>>
        /\ child = "none"
        /\ ~splashVisible
        /\ ~mainVisible

(***************************************************************************)
(* C6 as amended. If the worker script path cannot be canonicalized, the   *)
(* run aborts before the worker is spawned, before any relay or gate       *)
(* thread is started and before the main window is shown; by then the      *)
(* splash window is on screen and the dependency check has run (with the   *)
(* install, if the check reported missing).                                *)
(***************************************************************************)
C6_AbortBeforeWorkerAndMain ==
    abortedAt = "canonicalize" =>
        /\ pc = "aborted"
        /\ "worker" \notin Kinds(processes)
        /\ child = "none"
        /\ NoThreadStarted
        /\ ~mainVisible
        /\ ~loaded
        /\ splashVisible
        /\ checked # <<>>
        /\ deps \in {"missing", "satisfied"}
        /\ (deps = "missing") <=> (install # "not_called")

\* The abort happens after import checks and a pip run, with the splash shown.
C6_Witness ==
    /\ abortedAt = "canonicalize"
    /\ splashVisible
    /\ Kinds(processes) = {"import", "pip"}

(***************************************************************************)
(* C7 as written. Every line the worker writes to its error stream before  *)
(* the flag becomes true is forwarded as a backend-log event, every line   *)
(* it writes after is forwarded to the error console, and no line is       *)
(* forwarded to both. Stated over the lines forwarded so far.              *)
(***************************************************************************)
C7_RoutedByWriteTime ==
    LET out == relayed["stderr"] IN
    /\ \A i \in 1..Len(out) :
          /\ ~written["stderr"][out[i].line] => out[i].sink = "backend-log"
          /\ written["stderr"][out[i].line] => out[i].sink = "stderr_console"
    /\ \A i, j \in 1..Len(out) : out[i].line = out[j].line => i = j

(***************************************************************************)
(* C7 as amended. Every error-stream line the relay reads is forwarded to  *)
(* exactly one sink, chosen by the flag value loaded for that line: a line *)
(* written after the flag became true goes to the error console, a line    *)
(* written before it goes to the backend-log event or, if the flag was set *)
(* before the relay loaded it, to the error console; no line is forwarded  *)
(* to both sinks or twice, and none to the normal console.                 *)
(***************************************************************************)
C7_RoutedByLoadedFlag ==
    LET out == relayed["stderr"] IN
    /\ \A i \in 1..Len(out) :
          /\ out[i].line \in 1..nread["stderr"]
          /\ out[i].sink \in {"backend-log", "stderr_console"}
          /\ written["stderr"][out[i].line] => out[i].sink = "stderr_console"
          /\ out[i].sink = "stderr_console" => loaded
    /\ \A i, j \in 1..Len(out) : i < j => out[i].line < out[j].line
    /\ rpc["stderr"] = "emit" => ~written["stderr"][nread["stderr"]]
    /\ rpc["stderr"] = "print" => loaded

\* One line written and forwarded pre-readiness as an event, one written after
\* readiness and forwarded to the error console.
C7_Witness ==
    LET out == relayed["stderr"] IN
    /\ Len(out) = 2
    /\ ~written["stderr"][out[1].line] /\ out[1].sink = "backend-log"
    /\ written["stderr"][out[2].line] /\ out[2].sink = "stderr_console"

(***************************************************************************)
(* C8. deps_missing checks the modules in list order, returns missing at   *)
(* the first module whose import check fails (non-zero exit or failure to  *)
(* run the interpreter) without checking any later module, and returns     *)
(* satisfied only if all modules were checked and all succeeded.           *)
(***************************************************************************)
C8_DepsShortCircuit ==
    /\ Len(checked) <= Len(MUST_HAVE_MODULES)
    /\ \A i \in 1..Len(checked) :
          /\ checked[i].module = MUST_HAVE_MODULES[i]
          /\ i < Len(checked) => checked[i].result = "exit0"
    /\ deps = "missing" =>
          /\ checked # <<>>
          /\ checked[Len(checked)].result \in {"nonzero", "io_error"}
    /\ deps = "satisfied" =>
          /\ Len(checked) = Len(MUST_HAVE_MODULES)
          /\ \A i \in 1..Len(checked) : checked[i].result = "exit0"
    /\ (deps = "unknown" /\ checked # <<>>) =>
          /\ pc = "deps_missing"
          /\ checked[Len(checked)].result = "exit0"

\* The spec's example: the first module imports, the second does not, the third
\* is never checked.
C8_Witness ==
    /\ deps = "missing"
    /\ Len(checked) = 2
    /\ checked[1].result = "exit0"
    /\ checked[2].module = "uvicorn"
    /\ checked[2].result = "io_error"
    /\ pc = "canonicalize"

(***************************************************************************)
(* C9. Dependency repair never blocks the launch: whenever the dependency  *)
(* check reports missing, the supervisor goes on to resolve the worker     *)
(* script and to attempt the worker spawn, for every outcome of            *)
(* install_requirements. Stated as: after a missing report the routine is  *)
(* at the install or past it, every install outcome leads on to the script *)
(* resolution, and only the resolution or the spawn itself aborts the run. *)
(***************************************************************************)
C9_InstallNeverBlocks ==
    deps = "missing" =>
        /\ pc \in {"install", "canonicalize", "spawn", "spawn_stdout_relay",
                   "spawn_stderr_relay", "spawn_gate", "aborted"}
        /\ (pc = "install") <=> (install = "not_called")
        /\ pc = "aborted" => abortedAt \in {"canonicalize", "spawn"}
        /\ child = "running" <=> pc \in {"spawn_stdout_relay", "spawn_stderr_relay",
                                         "spawn_gate"}

\* install_requirements returned Err (pip could not be started) and the worker
\* was spawned all the same.
C9_Witness ==
    /\ deps = "missing"
    /\ install = "io_error"
    /\ child = "running"

(***************************************************************************)
(* C10. If spawning the worker fails, the run aborts there with no retry:  *)
(* no relay thread and no gate thread is started, no health request is     *)
(* issued, the flag stays false and the main window is never shown.        *)
(***************************************************************************)
C10_SpawnFailureFatal ==
    abortedAt = "spawn" =>
        /\ pc = "aborted"
        /\ child = "none"
        /\ "worker" \notin Kinds(processes)
        /\ NoThreadStarted
        /\ health = <<>>
        /\ \A s \in Streams : written[s] = <<>> /\ relayed[s] = <<>>
        /\ ~loaded
        /\ ~mainVisible
        /\ mainShows = 0

\* The spawn failed after a dependency repair.
C10_Witness ==
    /\ abortedAt = "spawn"
    /\ pc = "aborted"
    /\ install = "installed"

(***************************************************************************)
(* C11. The worker process is spawned at most once per run: in every       *)
(* reachable state the number of worker spawns is 0 or 1, and no second    *)
(* spawn follows a health-check timeout, a closed output stream or any     *)
(* other event.                                                            *)
(***************************************************************************)
C11_AtMostOneWorker ==
    /\ workerSpawns \in {0, 1}
    /\ (workerSpawns = 1) <=> (child = "running")
    /\ (ready = "timeout" \/ \E s \in Streams : closed[s]) => workerSpawns = 1

\* The health check timed out and the worker closed a stream that its relay has
\* drained: still one spawn.
C11_Witness ==
    /\ workerSpawns = 1
    /\ ready = "timeout"
    /\ GateEnded
    /\ closed["stdout"]
    /\ rpc["stdout"] = "done"

(***************************************************************************)
(* C12. For every subset of the two candidate interpreter paths that       *)
(* exist, resolve_python_path returns the first existing candidate in the  *)
(* preference order (.venv before venv) when one exists and the non-empty  *)
(* fallback command name `python` when none exists; it never returns an    *)
(* empty path and never fails.                                             *)
(***************************************************************************)
C12_FirstExistingCandidate ==
    /\ pc \in {"deps_missing", "install", "canonicalize", "spawn", "spawn_stdout_relay",
               "spawn_stderr_relay", "spawn_gate"} => python # ""
    /\ abortedAt # "resolve_python"
    /\ python # "" =>
          /\ (python = ".venv/bin/python") <=> (1 \in found)
          /\ (python = "venv/bin/python") <=> (1 \notin found /\ 2 \in found)
          /\ (python = "python") <=> (found = {})
    /\ python = "" => found = {}

\* Only the second candidate exists and is returned.
C12_Witness ==
    /\ found = {2}
    /\ python = "venv/bin/python"
    /\ pc = "deps_missing"

\* Position of a kind of child process in the order of the setup routine.
Rank(kind) == IF kind = "import" THEN 1 ELSE IF kind = "pip" THEN 2 ELSE 3

(***************************************************************************)
(* C13. The setup steps occur in a fixed order: interpreter resolution,    *)
(* then the dependency check (and any install, run to completion), then    *)
(* the worker spawn, and only after a successful spawn are the two relay   *)
(* threads and the gate thread started; no health request and no relayed   *)
(* line precedes the worker spawn.                                         *)
(***************************************************************************)
C13_SetupOrder ==
    /\ checked # <<>> => python # ""
    /\ install # "not_called" => deps = "missing"
    /\ \A i, j \in 1..Len(processes) :
          i < j => /\ Rank(processes[i]) <= Rank(processes[j])
                   /\ processes[i] # "worker"
                   /\ processes[j] = "pip" => processes[i] = "import"
    /\ "worker" \in Kinds(processes) =>
          /\ deps \in {"missing", "satisfied"}
          /\ (deps = "missing") => install # "not_called"
    /\ rpc["stdout"] # "unstarted" => child = "running"
    /\ rpc["stderr"] # "unstarted" => rpc["stdout"] # "unstarted"
    /\ gpc # "unstarted" => rpc["stderr"] # "unstarted"
    /\ gpc # "unstarted" <=> pc = "running"
    /\ (health # <<>> \/ \E s \in Streams : nread[s] > 0 \/ relayed[s] # <<>>) =>
          workerSpawns = 1

\* Import checks, then pip, then the worker; the first relay has already
\* forwarded a line while the gate thread is not yet started.
C13_Witness ==
    /\ pc = "spawn_gate"
    /\ processes = <<"import", "import", "pip", "worker">>
    /\ relayed["stdout"] # <<>>
    /\ gpc = "unstarted"

\* A step of the relay thread of stream s.
RelayStepOf(s) ==
    /\ rpc[s] # "unstarted"
    /\ <<nread[s], skipped[s], rpc[s], relayed[s]>> # <<nread'[s], skipped'[s], rpc'[s], relayed'[s]>>

(***************************************************************************)
(* C14. Only the readiness gate thread changes the readiness flag and the  *)
(* visibility of the splash and main windows once the threads run: every   *)
(* step of either relay thread (reading a line, loading the flag, emitting *)
(* a log event, printing to the console) leaves the flag, the splash       *)
(* visibility and the main visibility unchanged, and every change of the   *)
(* flag, every hiding of the splash and every change of the main           *)
(* visibility is a step of the gate thread.                                *)
(***************************************************************************)
C14_RelaysLeaveFlagAndWindows ==
    [][ /\ (\E s \in Streams : RelayStepOf(s)) =>
              UNCHANGED <<loaded, splashVisible, mainVisible>>
        /\ (loaded' # loaded \/ mainVisible' # mainVisible
              \/ (splashVisible /\ ~splashVisible')) =>
              (gpc \in {"store", "close", "show"} /\ gpc' # gpc)
      ]_vars

\* A relay thread has printed a line after the gate thread's transition, which
\* is in place.
C14_Witness ==
    /\ loaded
    /\ ~splashVisible
    /\ mainVisible
    /\ relayed["stdout"] # <<>>
    /\ relayed["stdout"][Len(relayed["stdout"])].sink = "stdout_console"
    /\ written["stdout"][relayed["stdout"][Len(relayed["stdout"])].line]

\* Number of child processes of a kind started so far.
Count(log, kind) == Cardinality({i \in 1..Len(log) : log[i] = kind})

(***************************************************************************)
(* C15. The package-manager install is invoked at most once per run and    *)
(* only when the dependency check reported missing and the manifest file   *)
(* exists: if all required modules import, install_requirements is never   *)
(* called, and if the manifest is absent, install_requirements starts no   *)
(* process and returns success.                                            *)
(***************************************************************************)
C15_InstallOnlyWhenMissing ==
    /\ Count(processes, "pip") <= 1
    /\ install # "not_called" => deps = "missing"
    /\ deps = "satisfied" => (install = "not_called" /\ Count(processes, "pip") = 0)
    /\ Count(processes, "pip") = 1 <=> install \in {"installed", "pip_failed"}
    /\ install = "no_manifest" =>
          /\ Count(processes, "pip") = 0
          /\ pc # "install"
          /\ abortedAt \in {"", "canonicalize", "spawn"}
    /\ pc = "running" => install = "not_called"

\* The check reported missing, the manifest was absent: no pip process, and the
\* routine went on to the spawn.
C15_Witness ==
    /\ deps = "missing"
    /\ install = "no_manifest"
    /\ Kinds(processes) = {"import", "worker"}

(***************************************************************************)
(* C16. Each of the worker's two streams is consumed by one relay thread,  *)
(* and every line read from a stream is forwarded exactly once, in the     *)
(* order the worker wrote it, to one sink chosen by the flag value loaded  *)
(* for that line: the splash log event if false; if true the normal        *)
(* console for standard-output lines and the error console for             *)
(* standard-error lines. No standard-output line reaches the error console *)
(* and no standard-error line reaches the normal console.                  *)
(***************************************************************************)
C16_EachLineOnceToOneSink ==
    \A s \in Streams :
        LET out == relayed[s]
            inflight == IF rpc[s] \in {"load", "emit", "print"} THEN 1 ELSE 0
        IN  /\ nread[s] <= Len(written[s])
            /\ Len(out) + skipped[s] + inflight = nread[s]
            /\ \A i \in 1..Len(out) :
                  /\ out[i].line \in 1..(nread[s] - inflight)
                  /\ out[i].sink \in {"backend-log",
                                      IF s = "stdout" THEN "stdout_console"
                                                      ELSE "stderr_console"}
                  /\ out[i].sink # "backend-log" => loaded
                  /\ written[s][out[i].line] => out[i].sink # "backend-log"
            /\ \A i, j \in 1..Len(out) : i < j => out[i].line < out[j].line
            /\ rpc[s] = "print" => loaded
            /\ rpc[s] = "done" => (closed[s] /\ nread[s] = Len(written[s]))

\* A standard-output line went to the splash before readiness and a
\* standard-error line to the error console after it.
C16_Witness ==
    /\ relayed["stdout"] = <<[line |-> 1, sink |-> "backend-log"]>>
    /\ relayed["stderr"] = <<[line |-> 1, sink |-> "stderr_console"]>>

(***************************************************************************)
(* C17. Routing by a relay thread is monotonic: once a relay thread has    *)
(* forwarded a line to the local console, it never afterwards forwards a   *)
(* later line of the same stream as a log event to the splash, under every *)
(* interleaving with the gate thread.                                      *)
(***************************************************************************)
C17_RoutingMonotonic ==
    \A s \in Streams :
        /\ \A i, j \in 1..Len(relayed[s]) :
              (i < j /\ relayed[s][i].sink # "backend-log") =>
                  relayed[s][j].sink # "backend-log"
        /\ rpc[s] = "emit" =>
              \A i \in 1..Len(relayed[s]) : relayed[s][i].sink = "backend-log"

\* Two lines of the error stream, both forwarded to the console.
C17_Witness ==
    /\ Len(relayed["stderr"]) = 2
    /\ relayed["stderr"][1].sink = "stderr_console"
    /\ relayed["stderr"][2].sink = "stderr_console"

(***************************************************************************)
(* C18 as written. No relay thread emits a backend-log event to the splash *)
(* after the gate thread has closed the splash, under every interleaving   *)
(* of the relay's flag load and emit with the gate's store and close.      *)
(***************************************************************************)
C18_NoEmitAfterSplashClosed ==
    [][\A s \in Streams : (rpc[s] = "emit" /\ rpc'[s] = "next") => splashCloses = 0]_vars

(***************************************************************************)
(* C18 as amended. No relay thread decides to emit a backend-log event     *)
(* (loads the flag as false) after the gate thread has stored the flag,    *)
(* hence none after the splash was closed; a relay that loaded the flag    *)
(* before the store may still emit that one line after the close.          *)
(***************************************************************************)
C18_EmitDecidedBeforeStore ==
    [][\A s \in Streams :
          (rpc[s] = "load" /\ rpc'[s] = "emit") =>
              /\ ~loaded
              /\ splashCloses = 0
              /\ splashVisible
              /\ gpc \in {"unstarted", "request", "sleep", "store"}
      ]_vars

\* A relay thread that loaded the flag as false is about to emit while the
\* splash is already closed.
C18_Witness ==
    /\ rpc["stdout"] = "emit"
    /\ splashCloses = 1
    /\ ~splashVisible

\* The scheduler runs every started thread: each thread that can take a step
\* eventually takes one.
FairSpec ==
    /\ Spec
    /\ WF_vars(Gate)
    /\ \A s \in Streams :
          WF_vars(RelayNext(s) \/ RelayLoad(s) \/ RelayEmit(s) \/ RelayPrint(s))

\* No started thread waits on another thread: the gate thread can always take
\* its next step, a relay thread holding a line can always forward it, and a
\* relay thread without a line waits only for the worker (a line or the end of
\* the stream).
NoThreadBlocked ==
    /\ gpc \in {"request", "sleep", "store", "close", "show"} => ENABLED Gate
    /\ \A s \in Streams :
          /\ rpc[s] \in {"load", "emit", "print"} =>
                ENABLED (RelayLoad(s) \/ RelayEmit(s) \/ RelayPrint(s))
          /\ (rpc[s] = "next" /\ (closed[s] \/ nread[s] < Len(written[s]))) =>
                ENABLED RelayNext(s)
          /\ rpc[s] = "done" =>
                /\ closed[s]
                /\ nread[s] = Len(written[s])
                /\ Len(relayed[s]) + skipped[s] = Len(written[s])
    /\ Len(health) <= max_retries

(***************************************************************************)
(* C19. Every spawned thread runs to natural completion: each relay thread *)
(* terminates once the worker has closed its stream and all remaining      *)
(* lines have been forwarded, the gate thread terminates after at most 20  *)
(* health requests followed by the terminal UI transition, and no thread   *)
(* waits on another thread. Stated on finite runs: no thread is ever       *)
(* blocked by another, the gate thread never ends by a panic, and when it  *)
(* has ended the transition is complete.                                   *)
(***************************************************************************)
C19_ThreadsRunToCompletion ==
    /\ NoThreadBlocked
    /\ gpc # "panicked"
    /\ gpc = "done" => (loaded /\ splashCloses = 1 /\ mainShows = 1)

\* The part of C19 the code satisfies under fair scheduling: the gate thread
\* always ends (by returning or by the panic) and a relay thread whose stream
\* was closed always ends.
C19_ThreadsEnd ==
    /\ (gpc = "request") ~> GateEnded
    /\ \A s \in Streams : (closed[s] /\ rpc[s] # "unstarted") ~> (rpc[s] = "done")

(***************************************************************************)
(* center_window, one call, step by step. The monitor and window sizes are *)
(* u32 values cast to i32; for the sizes drawn here (real screens) the     *)
(* casts and the i32 sums are exact, and `/` is Rust's division, which     *)
(* truncates toward zero.                                                  *)
(***************************************************************************)

programVars == <<setupVars, uiVars, loaded, workerVars, relayVars, gateVars>>

\* The displays monitor_from_point may answer: position (i32) and size (u32).
Monitors ==
    [status : {"some"}, x : {-1920, 0, 1920}, y : {-1080, 0},
     width : {1280, 1920}, height : {720, 1080}]

\* The sizes outer_size may answer: smaller and larger than a display, even and odd.
WindowSizes ==
    [status : {"ok"}, width : {401, 800, 2561}, height : {301, 600, 1441}]

\* i32 division by 2, truncating toward zero.
half_i32(d) == IF d >= 0 THEN d \div 2 ELSE -((-d) \div 2)

\* Variant of centered: the origin of the display is left out.
centered_without_origin(origin, outer, inner) == half_i32(outer - inner)

\* mon_pos.x + (mon_size.width as i32 - win_size.width as i32) / 2, and the same for y
centered(origin, outer, inner) == origin + half_i32(outer - inner)

\* app.handle().cursor_position(): on Err nothing is done.
CenterCursor ==
    /\ cwpc = "cursor_position"
    /\ cwcalls' = Append(cwcalls, "cursor_position")
    /\ \E ok \in BOOLEAN : cwpc' = IF ok THEN "monitor_from_point" ELSE "returned"
    /\ UNCHANGED <<programVars, cwmon, cwsize, cwpos>>

\* app.handle().monitor_from_point(..): Ok(Some(mon)) goes on, Ok(None) and Err
\* take the else branch.
CenterMonitor ==
    /\ cwpc = "monitor_from_point"
    /\ cwcalls' = Append(cwcalls, "monitor_from_point")
    /\ \E r \in Monitors \cup {[NoMonitor EXCEPT !.status = "none"],
                               [NoMonitor EXCEPT !.status = "err"]} :
          /\ cwmon' = r
          /\ cwpc' = IF r.status = "some" THEN "outer_size" ELSE "move_window"
    /\ UNCHANGED <<programVars, cwsize, cwpos>>

\* win.outer_size(): on Err nothing is done.
CenterSize ==
    /\ cwpc = "outer_size"
    /\ cwcalls' = Append(cwcalls, "outer_size")
    /\ \E r \in WindowSizes \cup {[NoSize EXCEPT !.status = "err"]} :
          /\ cwsize' = r
          /\ cwpc' = IF r.status = "ok" THEN "set_position" ELSE "returned"
    /\ UNCHANGED <<programVars, cwmon, cwpos>>

\* let _ = win.set_position(PhysicalPosition::new(x, y))
CenterSetPosition ==
    /\ cwpc = "set_position"
    /\ cwcalls' = Append(cwcalls, "set_position")
    /\ \E ok \in BOOLEAN :
          cwpos' = IF ok
                   THEN [kind |-> "at",
                         x |-> centered(cwmon.x, cwmon.width, cwsize.width),
                         y |-> centered(cwmon.y, cwmon.height, cwsize.height)]
                   ELSE cwpos
    /\ cwpc' = "returned"
    /\ UNCHANGED <<programVars, cwmon, cwsize>>

\* let _ = win.move_window(Position::Center)
CenterFallback ==
    /\ cwpc = "move_window"
    /\ cwcalls' = Append(cwcalls, "move_window")
    /\ \E ok \in BOOLEAN :
          cwpos' = IF ok THEN [kind |-> "center_current", x |-> 0, y |-> 0] ELSE cwpos
    /\ cwpc' = "returned"
    /\ UNCHANGED <<programVars, cwmon, cwsize>>

\* One call of center_window from the setup routine.
CenterInit ==
    /\ ProgramInit
    /\ cwpc = "cursor_position"
    /\ cwcalls = <<>>
    /\ cwmon = NoMonitor
    /\ cwsize = NoSize
    /\ cwpos = Unmoved

CenterNext ==
    \/ CenterCursor
    \/ CenterMonitor
    \/ CenterSize
    \/ CenterSetPosition
    \/ CenterFallback

CenterSpec == CenterInit /\ [][CenterNext]_vars

\* The toolkit calls made so far, as a set.
Called == {cwcalls[i] : i \in 1..Len(cwcalls)}

\* v is the offset that centers a length `inner` in a length `outer`, rounded
\* toward zero: twice the offset is the difference, or one short of it in size.
IsCentered(v, outer, inner) ==
    \/ 2 * v = outer - inner
    \/ (outer > inner /\ 2 * v = outer - inner - 1)
    \/ (outer < inner /\ 2 * v = outer - inner + 1)

(***************************************************************************)
(* C20 as written. center_window places the window at                      *)
(* x = mon.x + (mon.width - win.width) / 2, y likewise, when the pointer,  *)
(* the display under it and the window size are resolved; whenever the     *)
(* display under the pointer cannot be resolved it falls back to centering *)
(* the window on the display that hosts it; no failed query aborts the     *)
(* caller.                                                                 *)
(***************************************************************************)
C20_CenterOrFallbackAlways ==
    /\ cwpc # "panicked"
    /\ cwpos.kind = "at" =>
          /\ IsCentered(cwpos.x - cwmon.x, cwmon.width, cwsize.width)
          /\ IsCentered(cwpos.y - cwmon.y, cwmon.height, cwsize.height)
    /\ (cwpc = "returned" /\ cwsize.status = "ok") => "set_position" \in Called
    /\ (cwpc = "returned" /\ cwmon.status # "some") => "move_window" \in Called

(***************************************************************************)
(* C20 as amended. The placement is as written when the pointer, the       *)
(* display under it and the window size are resolved; the fallback is      *)
(* taken exactly when the pointer position was resolved and the display    *)
(* under it was not (none found, or the query failed); when the pointer    *)
(* query or the window-size query fails, the window is left where it is;   *)
(* no failed query aborts the caller.                                      *)
(***************************************************************************)
C20_CenterOrFallback ==
    /\ cwpc # "panicked"
    /\ cwpos.kind = "at" =>
          /\ cwmon.status = "some" /\ cwsize.status = "ok"
          /\ IsCentered(cwpos.x - cwmon.x, cwmon.width, cwsize.width)
          /\ IsCentered(cwpos.y - cwmon.y, cwmon.height, cwsize.height)
    /\ cwpc = "returned" =>
          /\ cwsize.status = "ok" <=> "set_position" \in Called
          /\ cwmon.status \in {"none", "err"} <=> "move_window" \in Called
          /\ cwmon.status = "unqueried" =>
                (cwcalls = <<"cursor_position">> /\ cwpos = Unmoved)
          /\ cwsize.status = "err" => cwpos = Unmoved
          /\ cwpos.kind = "center_current" => "move_window" \in Called
          /\ "move_window" \in Called => cwpos.kind \in {"center_current", "unmoved"}

\* A window wider than its display by an odd number of pixels, placed left of
\* the display's origin on a display left of the primary one.
C20_Witness ==
    /\ cwpc = "returned"
    /\ cwmon.x = -1920 /\ cwmon.width = 1920 /\ cwsize.width = 2561
    /\ cwpos.kind = "at"
    /\ cwpos.x = -2240

====
